---- MODULE Spec2Model ----
(***************************************************************************)
(* The evaluation core of the lisp interpreter: the value model            *)
(* (object.rs), the chain of scopes (env.rs) and the evaluator with its    *)
(* builtins (eval.rs).  The evaluator is a recursive function of an        *)
(* expression, a scope and the store of scopes; a host (the REPL of        *)
(* main.rs, the tests of tests/read_eval.rs) evaluates one form after      *)
(* another against scopes it holds.                                        *)
(***************************************************************************)
EXTENDS Integers, Sequences, FiniteSets, TLC

\* Number of top-level evaluations of one run.
MaxSteps == 3
\* Number of top-level evaluations of one run of the counter session.
MaxCounterSteps == 5
\* Number of top-level evaluations of one run of the sessions that take
\* their forms from the larger sets.
MaxFormSteps == 1
\* Number of scopes the host holds (the global one and those of Env::new).
MaxHandles == 2
\* Depth of nested eval_internal calls the native stack holds.
MaxDepth == 8
\* Width of a Fixnum (isize), scaled down.
FixnumBits == 6

RECURSIVE Pow2(_)
Pow2(n) == IF n = 0 THEN 1 ELSE 2 * Pow2(n - 1)

MaxFixnum == Pow2(FixnumBits - 1) - 1
MinFixnum == 0 - Pow2(FixnumBits - 1)

(***************************************************************************)
(* Values (ObjectKind) and their constructors.                             *)
(***************************************************************************)
nil == [k |-> "Nil"]

fixnum(n) == [k |-> "Fixnum", n |-> n]

\* As if the name nil were a Symbol like any other.
symbol_plain(s) == [k |-> "Symbol", s |-> s]

symbol(s) == IF s = "nil" THEN nil ELSE [k |-> "Symbol", s |-> s]

cons(car, cdr) == [k |-> "Cons", car |-> car, cdr |-> cdr]

Func(f) == [k |-> "Func", f |-> f]

closure(parameters, body, env) ==
    [k |-> "Closure", parameters |-> parameters, body |-> body, env |-> env]

\* Cons::iter and ListIter::next: the cars of the chain of Pairs; whatever
\* ends the chain (Nil or a dotted tail) is not yielded.
RECURSIVE ListIter(_)
ListIter(c) ==
    IF c.cdr.k = "Cons" THEN <<c.car>> \o ListIter(c.cdr) ELSE <<c.car>>

(***************************************************************************)
(* Errors (RuntimeError) and results (EvalResult), threaded with the       *)
(* store.  st = [envs, trace, build]; trace records, in order, every call   *)
(* of eval_internal (eval) and its return (ret), every scope a closure     *)
(* call makes (call) and every write to a table (insert, set).             *)
(***************************************************************************)
UnboundVariable(name) == [e |-> "UnboundVariable", name |-> name]

MismatchType(value, type) == [e |-> "MismatchType", value |-> value, type |-> type]

WrongNumArgs(actual, expected) ==
    [e |-> "WrongNumArgs", actual |-> actual, expected |-> expected]

TooFewArguments(actual, min) == [e |-> "TooFewArguments", actual |-> actual, min |-> min]

TooManyArguments(actual, max) == [e |-> "TooManyArguments", actual |-> actual, max |-> max]

\* The process aborts: a panic or the overflow of the native stack.
Abort(why) == [e |-> "Abort", why |-> why]

Ok(v, st) == [ok |-> TRUE, v |-> v, st |-> st]

Err(e, st) == [ok |-> FALSE, v |-> e, st |-> st]

Log(st, ev) == [st EXCEPT !.trace = Append(@, ev)]

(***************************************************************************)
(* Env: a scope is [parent, table]; the store is the sequence of all       *)
(* scopes, a scope's handle its index, parent 0 is None.                   *)
(***************************************************************************)
EmptyTable == [n \in {} |-> nil]

EnvNew(envs, parent) == Append(envs, [parent |-> parent, table |-> EmptyTable])

TableInsert(table, name, value) ==
    [n \in DOMAIN table \cup {name} |-> IF n = name THEN value ELSE table[n]]

\* As if define were an assignment where an enclosing scope binds the name.
RECURSIVE EnvInsert_nearest(_, _, _, _)
EnvInsert_nearest(envs, env, name, value) ==
    IF name \in DOMAIN envs[env].table \/ envs[env].parent = 0
    THEN [envs EXCEPT ![env].table = TableInsert(@, name, value)]
    ELSE IF \E s \in 1..Len(envs) : name \in DOMAIN envs[s].table
         THEN EnvInsert_nearest(envs, envs[env].parent, name, value)
         ELSE [envs EXCEPT ![env].table = TableInsert(@, name, value)]

EnvInsert(envs, env, name, value) ==
    [envs EXCEPT ![env].table = TableInsert(@, name, value)]

\* The scope Env::set and Env::get stop at: the nearest one of the chain
\* from env that holds name, 0 when none does.
RECURSIVE EnvFind(_, _, _)
EnvFind(envs, env, name) ==
    IF name \in DOMAIN envs[env].table THEN env
    ELSE IF envs[env].parent = 0 THEN 0
    ELSE EnvFind(envs, envs[env].parent, name)

\* As if set! bound the name in the current scope when that scope lacks it.
EnvSet_local(envs, env, name, value) ==
    [found |-> TRUE, envs |-> [envs EXCEPT ![env].table = TableInsert(@, name, value)],
     at |-> env]

\* Env::set: [found, envs, at].
EnvSet(envs, env, name, value) ==
    LET at == EnvFind(envs, env, name) IN
    IF at = 0 THEN [found |-> FALSE, envs |-> envs, at |-> 0]
    ELSE [found |-> TRUE, envs |-> [envs EXCEPT ![at].table[name] = value], at |-> at]

\* As if lookup did not follow the parent link.
EnvGet_local(envs, env, name) ==
    IF name \in DOMAIN envs[env].table
    THEN [some |-> TRUE, v |-> envs[env].table[name]]
    ELSE [some |-> FALSE, v |-> nil]

\* Env::get: [some, v].
EnvGet(envs, env, name) ==
    LET at == EnvFind(envs, env, name) IN
    IF at = 0 THEN [some |-> FALSE, v |-> nil]
    ELSE [some |-> TRUE, v |-> envs[at].table[name]]

Builtins == {"+", "atom?", "cons", "car", "cdr", "equal"}

\* Env::init and Env::global_env.
GlobalTable == [n \in Builtins |-> Func(n)]

(***************************************************************************)
(* Builtin procedures.                                                     *)
(***************************************************************************)
check_num_args(args, expected) ==
    IF Len(args) # expected
    THEN [ok |-> FALSE, v |-> WrongNumArgs(Len(args), expected)]
    ELSE [ok |-> TRUE, v |-> nil]

check_num_args_range(args, min, max) ==
    IF Len(args) < min THEN [ok |-> FALSE, v |-> TooFewArguments(Len(args), min)]
    ELSE IF max < Len(args) THEN [ok |-> FALSE, v |-> TooManyArguments(Len(args), max)]
    ELSE [ok |-> TRUE, v |-> nil]

\* acc += n on isize: a debug build panics when the sum leaves the range,
\* a release build wraps.
RECURSIVE plus_loop(_, _, _)
plus_loop(args, acc, st) ==
    IF Len(args) = 0 THEN Ok(fixnum(acc), st)
    ELSE IF Head(args).k # "Fixnum" THEN Err(MismatchType(Head(args), "Number"), st)
    ELSE LET sum == acc + Head(args).n IN
         IF sum > MaxFixnum \/ sum < MinFixnum
         THEN IF st.build = "debug" THEN Err(Abort("overflow"), st)
              ELSE plus_loop(Tail(args),
                             ((sum - MinFixnum) % Pow2(FixnumBits)) + MinFixnum, st)
         ELSE plus_loop(Tail(args), sum, st)

plus(args, st) == plus_loop(args, 0, st)

is_atom(args, st) ==
    LET c == check_num_args(args, 1) IN
    IF ~c.ok THEN Err(c.v, st)
    ELSE IF args[1].k = "Cons" THEN Ok(nil, st) ELSE Ok(symbol("t"), st)

\* As if the two fields were taken in the other order.
builtin_cons_swapped(args, st) ==
    LET c == check_num_args(args, 2) IN
    IF ~c.ok THEN Err(c.v, st) ELSE Ok(cons(args[2], args[1]), st)

builtin_cons(args, st) ==
    LET c == check_num_args(args, 2) IN
    IF ~c.ok THEN Err(c.v, st) ELSE Ok(cons(args[1], args[2]), st)

\* As if the kind of the first argument were checked before the count.
cxr_kind_first(args, field, st) ==
    IF Len(args) >= 1 /\ args[1].k # "Cons"
    THEN Err(MismatchType(args[1], "Cons"), st)
    ELSE LET c == check_num_args(args, 1) IN
         IF ~c.ok THEN Err(c.v, st)
         ELSE Ok(IF field = "car" THEN args[1].car ELSE args[1].cdr, st)

cxr(args, field, st) ==
    LET c == check_num_args(args, 1) IN
    IF ~c.ok THEN Err(c.v, st)
    ELSE IF args[1].k = "Cons"
         THEN Ok(IF field = "car" THEN args[1].car ELSE args[1].cdr, st)
         ELSE Err(MismatchType(args[1], "Cons"), st)

car(args, st) == cxr(args, "car", st)

cdr(args, st) == cxr(args, "cdr", st)

\* equal::equal: by value on Nil, Fixnum and Symbol, field by field on
\* Cons, by identity on procedures.
RECURSIVE equal(_, _)
equal(x, y) ==
    CASE x.k = "Nil" -> y.k = "Nil"
      [] x.k = "Fixnum" -> y.k = "Fixnum" /\ x.n = y.n
      [] x.k = "Symbol" -> y.k = "Symbol" /\ x.s = y.s
      [] x.k = "Cons" -> y.k = "Cons" /\ equal(x.car, y.car) /\ equal(x.cdr, y.cdr)
      [] x.k = "Func" -> y.k = "Func" /\ x.f = y.f
      [] OTHER -> x = y

builtin_equal(args, st) ==
    LET c == check_num_args(args, 2) IN
    IF ~c.ok THEN Err(c.v, st)
    ELSE IF equal(args[1], args[2]) THEN Ok(symbol("t"), st) ELSE Ok(nil, st)

\* func(&args) of apply_function: the call through the function pointer.
CallFunc(f, args, st) ==
    CASE f = "+" -> plus(args, st)
      [] f = "atom?" -> is_atom(args, st)
      [] f = "cons" -> builtin_cons(args, st)
      [] f = "car" -> car(args, st)
      [] f = "cdr" -> cdr(args, st)
      [] f = "equal" -> builtin_equal(args, st)

(***************************************************************************)
(* The evaluator.  d is the depth of the call on the native stack.         *)
(***************************************************************************)
RECURSIVE eval_internal(_, _, _, _)
RECURSIVE eval_args(_, _, _, _)
RECURSIVE eval_body(_, _, _, _, _)

eval_quote(args, st) ==
    LET c == check_num_args(args, 1) IN
    IF ~c.ok THEN Err(c.v, st) ELSE Ok(args[1], st)

\* As if the test were evaluated before the operand count is checked.
eval_if_test_first(args, env, st, d) ==
    LET t == IF Len(args) >= 1 THEN eval_internal(args[1], env, st, d + 1)
             ELSE Ok(nil, st)
        c == check_num_args_range(args, 2, 3)
    IN IF ~t.ok THEN t
       ELSE IF ~c.ok THEN Err(c.v, t.st)
       ELSE IF t.v.k = "Nil"
            THEN IF Len(args) >= 3 THEN eval_internal(args[3], env, t.st, d + 1)
                 ELSE Ok(nil, t.st)
            ELSE eval_internal(args[2], env, t.st, d + 1)

\* As if the Integer 0 counted as false, like Nil.
eval_if_zero_false(args, env, st, d) ==
    LET c == check_num_args_range(args, 2, 3) IN
    IF ~c.ok THEN Err(c.v, st)
    ELSE LET t == eval_internal(args[1], env, st, d + 1) IN
         IF ~t.ok THEN t
         ELSE IF t.v.k = "Nil" \/ t.v = fixnum(0)
              THEN IF Len(args) >= 3 THEN eval_internal(args[3], env, t.st, d + 1)
                   ELSE Ok(nil, t.st)
              ELSE eval_internal(args[2], env, t.st, d + 1)

eval_if(args, env, st, d) ==
    LET c == check_num_args_range(args, 2, 3) IN
    IF ~c.ok THEN Err(c.v, st)
    ELSE LET t == eval_internal(args[1], env, st, d + 1) IN
         IF ~t.ok THEN t
         ELSE IF t.v.k = "Nil"
              THEN IF Len(args) >= 3 THEN eval_internal(args[3], env, t.st, d + 1)
                   ELSE Ok(nil, t.st)
              ELSE eval_internal(args[2], env, t.st, d + 1)

eval_define(args, env, st, d) ==
    LET c == check_num_args(args, 2) IN
    IF ~c.ok THEN Err(c.v, st)
    ELSE IF args[1].k # "Symbol" THEN Err(MismatchType(args[1], "Symbol"), st)
    ELSE LET r == eval_internal(args[2], env, st, d + 1) IN
         IF ~r.ok THEN r
         ELSE Ok(r.v, Log([r.st EXCEPT !.envs = EnvInsert(@, env, args[1].s, r.v)],
                          [op |-> "insert", env |-> env, name |-> args[1].s,
                           value |-> r.v]))

\* As if the body forms were evaluated once when the closure is made.
eval_lambda_eager(iter, env, st) ==
    IF Len(iter) = 0 THEN Err(TooFewArguments(0, 1), st)
    ELSE LET arg == Head(iter) IN
         IF arg.k \notin {"Cons", "Nil"} THEN Err(MismatchType(arg, "List"), st)
         ELSE LET list == IF arg.k = "Cons" THEN ListIter(arg) ELSE <<>>
                  bad == {i \in 1..Len(list) : list[i].k # "Symbol"}
                  b == eval_body(Tail(iter), env, st, 0, nil)
              IN IF bad # {}
                 THEN Err(MismatchType(list[CHOOSE i \in bad : \A j \in bad : i <= j],
                                       "Symbol"), st)
                 ELSE IF ~b.ok THEN b
                 ELSE Ok(closure([i \in 1..Len(list) |-> list[i].s], Tail(iter), env),
                         b.st)

\* iter is what is left of the form's ListIter after the head.
eval_lambda(iter, env, st) ==
    IF Len(iter) = 0 THEN Err(TooFewArguments(0, 1), st)
    ELSE LET arg == Head(iter) IN
         IF arg.k \notin {"Cons", "Nil"} THEN Err(MismatchType(arg, "List"), st)
         ELSE LET list == IF arg.k = "Cons" THEN ListIter(arg) ELSE <<>>
                  bad == {i \in 1..Len(list) : list[i].k # "Symbol"}
              IN IF bad # {}
                 THEN Err(MismatchType(list[CHOOSE i \in bad : \A j \in bad : i <= j],
                                       "Symbol"), st)
                 ELSE Ok(closure([i \in 1..Len(list) |-> list[i].s], Tail(iter), env), st)

eval_set(args, env, st, d) ==
    LET c == check_num_args(args, 2) IN
    IF ~c.ok THEN Err(c.v, st)
    ELSE IF args[1].k # "Symbol" THEN Err(MismatchType(args[1], "Symbol"), st)
    ELSE LET r == eval_internal(args[2], env, st, d + 1) IN
         IF ~r.ok THEN r
         ELSE LET s == EnvSet(r.st.envs, env, args[1].s, r.v) IN
              IF s.found
              THEN Ok(r.v, Log([r.st EXCEPT !.envs = s.envs],
                               [op |-> "set", env |-> s.at, name |-> args[1].s,
                                value |-> r.v]))
              ELSE Err(UnboundVariable(args[1].s), r.st)

\* for (param, arg) in parameters.zip(args): env.insert(param, arg)
RECURSIVE bind_params(_, _, _, _)
bind_params(st, env, parameters, args) ==
    IF Len(parameters) = 0 THEN st
    ELSE bind_params(Log([st EXCEPT !.envs = EnvInsert(@, env, Head(parameters),
                                                       Head(args))],
                         [op |-> "insert", env |-> env, name |-> Head(parameters),
                          value |-> Head(args)]),
                     env, Tail(parameters), Tail(args))

\* As if the loop did not stop at a form that fails.
eval_body_continue(body, env, st, d, result) ==
    IF Len(body) = 0 THEN Ok(result, st)
    ELSE LET r == eval_internal(Head(body), env, st, d + 1) IN
         IF ~r.ok /\ Len(body) = 1 THEN r
         ELSE eval_body(Tail(body), env, r.st, d, r.v)

\* for form in body: result = eval_internal(form, env)?
eval_body(body, env, st, d, result) ==
    IF Len(body) = 0 THEN Ok(result, st)
    ELSE LET r == eval_internal(Head(body), env, st, d + 1) IN
         IF ~r.ok THEN r ELSE eval_body(Tail(body), env, r.st, d, r.v)

\* As if the arguments were bound without the count being checked.
apply_closure_unchecked(c, args, st, d) ==
    LET env == Len(st.envs) + 1
        n == IF Len(args) < Len(c.parameters) THEN Len(args) ELSE Len(c.parameters)
        st1 == Log([st EXCEPT !.envs = EnvNew(@, c.env)],
                   [op |-> "call", env |-> env, parent |-> c.env])
    IN eval_body(c.body, env,
                 bind_params(st1, env, SubSeq(c.parameters, 1, n), SubSeq(args, 1, n)),
                 d, nil)

\* As if a call ran on a copy of the captured scope.
apply_closure_copy(c, args, st, d) ==
    IF Len(c.parameters) # Len(args)
    THEN Err(WrongNumArgs(Len(args), Len(c.parameters)), st)
    ELSE LET copy == Len(st.envs) + 1
             env == Len(st.envs) + 2
             st1 == Log([st EXCEPT !.envs = EnvNew(Append(@, @[c.env]), copy)],
                        [op |-> "call", env |-> env, parent |-> copy])
         IN eval_body(c.body, env, bind_params(st1, env, c.parameters, args), d, nil)

\* As if the parameters were bound in the captured scope itself.
apply_closure_shared(c, args, st, d) ==
    IF Len(c.parameters) # Len(args)
    THEN Err(WrongNumArgs(Len(args), Len(c.parameters)), st)
    ELSE LET env == c.env
             st1 == Log(st, [op |-> "call", env |-> env, parent |-> c.env])
         IN eval_body(c.body, env, bind_params(st1, env, c.parameters, args), d, nil)

\* As if the parameters were bound in the captured scope and the body ran
\* in the new one.
apply_closure_flat(c, args, st, d) ==
    IF Len(c.parameters) # Len(args)
    THEN Err(WrongNumArgs(Len(args), Len(c.parameters)), st)
    ELSE LET env == Len(st.envs) + 1
             st1 == Log([st EXCEPT !.envs = EnvNew(@, c.env)],
                        [op |-> "call", env |-> env, parent |-> c.env])
         IN eval_body(c.body, env, bind_params(st1, c.env, c.parameters, args), d, nil)

apply_closure(c, args, st, d) ==
    IF Len(c.parameters) # Len(args)
    THEN Err(WrongNumArgs(Len(args), Len(c.parameters)), st)
    ELSE LET env == Len(st.envs) + 1
             st1 == Log([st EXCEPT !.envs = EnvNew(@, c.env)],
                        [op |-> "call", env |-> env, parent |-> c.env])
         IN eval_body(c.body, env, bind_params(st1, env, c.parameters, args), d, nil)

\* for arg in iter: args.push(eval_internal(arg, env)?)
eval_args(iter, env, st, d) ==
    IF Len(iter) = 0 THEN Ok(<<>>, st)
    ELSE LET r == eval_internal(Head(iter), env, st, d + 1) IN
         IF ~r.ok THEN r
         ELSE LET rs == eval_args(Tail(iter), env, r.st, d) IN
              IF ~rs.ok THEN rs ELSE Ok(<<r.v>> \o rs.v, rs.st)

\* As if the head were checked to be callable before the arguments are
\* evaluated.
apply_function_check_first(first, iter, env, st, d) ==
    LET f == eval_internal(first, env, st, d + 1) IN
    IF ~f.ok THEN f
    ELSE IF f.v.k \notin {"Func", "Closure"} THEN Err(MismatchType(f.v, "Function"), f.st)
    ELSE LET a == eval_args(iter, env, f.st, d) IN
         IF ~a.ok THEN a
         ELSE CASE f.v.k = "Func" -> CallFunc(f.v.f, a.v, a.st)
                [] f.v.k = "Closure" -> apply_closure(f.v, a.v, a.st, d)

\* As if a closure ran in a child of the scope of the application (dynamic
\* scoping) instead of a child of the scope it captured.
apply_function_dynamic(first, iter, env, st, d) ==
    LET f == eval_internal(first, env, st, d + 1) IN
    IF ~f.ok THEN f
    ELSE LET a == eval_args(iter, env, f.st, d) IN
         IF ~a.ok THEN a
         ELSE CASE f.v.k = "Func" -> CallFunc(f.v.f, a.v, a.st)
                [] f.v.k = "Closure" ->
                      apply_closure([f.v EXCEPT !.env = env], a.v, a.st, d)
                [] OTHER -> Err(MismatchType(f.v, "Function"), a.st)

apply_function(first, iter, env, st, d) ==
    LET f == eval_internal(first, env, st, d + 1) IN
    IF ~f.ok THEN f
    ELSE LET a == eval_args(iter, env, f.st, d) IN
         IF ~a.ok THEN a
         ELSE CASE f.v.k = "Func" -> CallFunc(f.v.f, a.v, a.st)
                [] f.v.k = "Closure" -> apply_closure(f.v, a.v, a.st, d)
                [] OTHER -> Err(MismatchType(f.v, "Function"), a.st)

eval_internal(x, env, st0, d) ==
    IF d > MaxDepth THEN Err(Abort("stack"), st0)
    ELSE LET st == Log(st0, [op |-> "eval", x |-> x, env |-> env])
             r == CASE x.k \in {"Nil", "Fixnum", "Func", "Closure"} -> Ok(x, st)
                    [] x.k = "Symbol" ->
                          LET g == EnvGet(st.envs, env, x.s) IN
                          IF g.some THEN Ok(g.v, st) ELSE Err(UnboundVariable(x.s), st)
                    [] x.k = "Cons" ->
                          LET iter == ListIter(x)
                              first == Head(iter)
                              rest == Tail(iter)
                          IN IF first.k = "Symbol" /\ first.s = "quote"
                             THEN eval_quote(rest, st)
                             ELSE IF first.k = "Symbol" /\ first.s = "if"
                             THEN eval_if(rest, env, st, d)
                             ELSE IF first.k = "Symbol" /\ first.s = "define"
                             THEN eval_define(rest, env, st, d)
                             ELSE IF first.k = "Symbol" /\ first.s = "lambda"
                             THEN eval_lambda(rest, env, st)
                             ELSE IF first.k = "Symbol" /\ first.s = "set!"
                             THEN eval_set(rest, env, st, d)
                             ELSE apply_function(first, rest, env, st, d)
         IN [r EXCEPT !.st = Log(@, [op |-> "ret", ok |-> r.ok, v |-> r.v])]

\* eval: the entry point, on the store envs of a build.
eval(x, env, envs, b) ==
    eval_internal(x, env, [envs |-> envs, trace |-> <<>>, build |-> b], 0)

(***************************************************************************)
(* The host: it holds scopes (handles), makes new ones with Env::new and   *)
(* evaluates forms in them.  last is the latest operation, with the store  *)
(* it started from; written is, for every binding ever written, the value  *)
(* of the latest write (Env::init, define, set!, parameter binding);        *)
(* ncalls is the number of evaluations of (c) since c was bound by         *)
(* (define c (mkcounter)), -1 while it is not.                             *)
(***************************************************************************)
VARIABLES envs, handles, build, last, written, steps, ncalls

vars == <<envs, handles, build, last, written, steps, ncalls>>

RECURSIVE ApplyWrites(_, _)
ApplyWrites(w, trace) ==
    IF Len(trace) = 0 THEN w
    ELSE LET ev == Head(trace) IN
         IF ev.op \in {"insert", "set"}
         THEN ApplyWrites([b \in DOMAIN w \cup {<<ev.env, ev.name>>} |->
                              IF b = <<ev.env, ev.name>> THEN ev.value ELSE w[b]],
                          Tail(trace))
         ELSE ApplyWrites(w, Tail(trace))

NoOp == [op |-> "none", x |-> nil, env |-> 0, ok |-> TRUE, v |-> nil,
         trace |-> <<>>, pre |-> <<>>]

Aborted == last.op = "eval" /\ ~last.ok /\ last.v.e = "Abort"

Init ==
    /\ envs = <<[parent |-> 0, table |-> GlobalTable]>>
    /\ handles = {1}
    /\ build \in {"debug", "release"}
    /\ last = NoOp
    /\ written = [b \in {1} \X Builtins |-> Func(b[2])]
    /\ steps = 0
    /\ ncalls = 0 - 1

\* Env::new(Some(parent)) by the host.
NewScope(p) ==
    /\ ~Aborted
    /\ p \in handles
    /\ Cardinality(handles) < MaxHandles
    /\ envs' = EnvNew(envs, p)
    /\ handles' = handles \cup {Len(envs) + 1}
    /\ last' = [NoOp EXCEPT !.op = "new", !.env = Len(envs) + 1, !.pre = envs]
    /\ UNCHANGED <<build, written, steps, ncalls>>

\* eval(x, env) by the host, on a scope it holds.
EvalCore(x, h) ==
    /\ ~Aborted
    /\ h \in handles
    /\ LET r == eval(x, h, envs, build) IN
        /\ envs' = r.st.envs
        /\ last' = [op |-> "eval", x |-> x, env |-> h, ok |-> r.ok, v |-> r.v,
                    trace |-> r.st.trace, pre |-> envs]
        /\ written' = ApplyWrites(written, r.st.trace)
    /\ UNCHANGED <<handles, build>>

Eval(x, h) ==
    steps < MaxSteps /\ EvalCore(x, h) /\ steps' = steps + 1 /\ UNCHANGED ncalls

(***************************************************************************)
(* Forms, as the reader builds them.                                       *)
(***************************************************************************)
\* vec_to_cons(vec, nil): the proper list of the elements of vec.
RECURSIVE vec_to_cons(_, _)
vec_to_cons(vec, tail) ==
    IF Len(vec) = 0 THEN tail ELSE cons(Head(vec), vec_to_cons(Tail(vec), tail))

List(vec) == vec_to_cons(vec, nil)

DefineForm(n, e) == List(<<symbol("define"), symbol(n), e>>)

SetForm(n, e) == List(<<symbol("set!"), symbol(n), e>>)

PlusForm(a, b) == List(<<symbol("+"), a, b>>)

(***************************************************************************)
(* SpecEnv: definition, assignment and lookup of variables on chains of    *)
(* scopes the host builds.                                                 *)
(***************************************************************************)
Names == {"x", "y"}

\* Value expressions without side effects; (+ x 1) fails while x is unbound.
EnvExprs == {fixnum(1), PlusForm(symbol("x"), fixnum(1))}

EvalSymbol(n, h) == Eval(symbol(n), h)

EvalDefine(n, e, h) == Eval(DefineForm(n, e), h)

EvalSet(n, e, h) == Eval(SetForm(n, e), h)

NextEnv ==
    \/ \E p \in handles : NewScope(p)
    \/ \E n \in Names \cup {"car"}, h \in handles : EvalSymbol(n, h)
    \/ \E n \in Names, e \in EnvExprs, h \in handles : EvalDefine(n, e, h)
    \/ \E n \in Names, e \in EnvExprs, h \in handles : EvalSet(n, e, h)

SpecEnv == Init /\ [][NextEnv]_vars

\* The scopes of the chain from h outwards, nearest first.
RECURSIVE Chain(_, _)
Chain(es, h) == IF h = 0 THEN <<>> ELSE <<h>> \o Chain(es, es[h].parent)

\* The first scope of a chain that satisfies Holds, 0 when none does.
FirstOf(chain, Holds(_)) ==
    LET at == {i \in 1..Len(chain) : Holds(chain[i])} IN
    IF at = {} THEN 0 ELSE chain[CHOOSE i \in at : \A j \in at : i <= j]

NearestHolder(es, h, n) ==
    LET Holds(s) == n \in DOMAIN es[s].table IN FirstOf(Chain(es, h), Holds)

NearestWritten(es, h, n) ==
    LET Holds(s) == <<s, n>> \in DOMAIN written IN FirstOf(Chain(es, h), Holds)

\* C2: a define of a side-effect-free value expression changes no scope but
\* the one it is evaluated in (so no ancestor, whether or not it binds the
\* name); when the value expression evaluates, the define returns its value
\* and binds the name to it in that scope, leaving the scope's other
\* bindings alone; when it fails, its error is returned and nothing changes.
C2_DefineWritesLocalScopeOnly ==
    \A n \in Names, e \in EnvExprs :
        (last.op = "eval" /\ last.x = DefineForm(n, e)) =>
            LET h == last.env
                pre == last.pre
                ev == eval(e, h, pre, build)
            IN /\ Len(envs) = Len(pre)
               /\ \A s \in 1..Len(pre) : s # h => envs[s] = pre[s]
               /\ envs[h].parent = pre[h].parent
               /\ ev.ok =>
                    /\ last.ok /\ last.v = ev.v
                    /\ DOMAIN envs[h].table = DOMAIN pre[h].table \cup {n}
                    /\ envs[h].table[n] = ev.v
                    /\ \A m \in DOMAIN pre[h].table :
                          m # n => envs[h].table[m] = pre[h].table[m]
               /\ ~ev.ok => ~last.ok /\ last.v = ev.v /\ envs = pre

\* A define in a child scope of a name its parent binds to another value.
C2_Witness ==
    /\ last.op = "eval" /\ last.x = DefineForm("x", fixnum(1)) /\ last.ok
    /\ last.env # 1
    /\ "x" \in DOMAIN last.pre[last.pre[last.env].parent].table
    /\ last.pre[last.pre[last.env].parent].table["x"] = fixnum(2)
    /\ "x" \notin DOMAIN last.pre[last.env].table

\* C3: a set! of a side-effect-free value expression that evaluates
\* overwrites the binding of the name in the nearest scope of the chain
\* that holds it and changes nothing else; when no scope of the chain holds
\* the name it fails with UnboundVariable(name) and changes nothing; when
\* the value expression fails, its error is returned and nothing changes.
C3_SetChangesNearestBindingOrNone ==
    \A n \in Names, e \in EnvExprs :
        (last.op = "eval" /\ last.x = SetForm(n, e)) =>
            LET h == last.env
                pre == last.pre
                ev == eval(e, h, pre, build)
                w == NearestHolder(pre, h, n)
            IN /\ ~ev.ok => ~last.ok /\ last.v = ev.v /\ envs = pre
               /\ (ev.ok /\ w # 0) =>
                    /\ last.ok /\ last.v = ev.v
                    /\ envs = [pre EXCEPT ![w].table[n] = ev.v]
               /\ (ev.ok /\ w = 0) =>
                    /\ ~last.ok /\ last.v = UnboundVariable(n)
                    /\ envs = pre

\* A set! in a child scope that lacks the name, which its parent binds to
\* another value.
C3_Witness ==
    /\ last.op = "eval" /\ last.x = SetForm("x", fixnum(1)) /\ last.ok
    /\ last.env # 1
    /\ "x" \notin DOMAIN last.pre[last.env].table
    /\ "x" \in DOMAIN last.pre[last.pre[last.env].parent].table
    /\ last.pre[last.pre[last.env].parent].table["x"] = fixnum(2)
    /\ envs[last.pre[last.env].parent].table["x"] = fixnum(1)

\* C4: a Symbol evaluates to the value of the latest write (Env::init,
\* define, set!) to the binding of its name in the nearest scope of the
\* chain that was ever written under that name, and fails with
\* UnboundVariable(name) exactly when there is none; a successful define
\* leaves its result as the latest write of its scope, and the result of
\* (define n (+ x 1)) is one more than the x visible before the define.
C4_LookupReadsLatestWrite ==
    /\ \A n \in Names \cup {"car"} :
          (last.op = "eval" /\ last.x = symbol(n)) =>
              LET w == NearestWritten(envs, last.env, n) IN
              IF w # 0 THEN last.ok /\ last.v = written[<<w, n>>]
              ELSE ~last.ok /\ last.v = UnboundVariable(n)
    /\ \A n \in Names, e \in EnvExprs :
          (last.op = "eval" /\ last.x = DefineForm(n, e) /\ last.ok) =>
              /\ written[<<last.env, n>>] = last.v
              /\ e = PlusForm(symbol("x"), fixnum(1)) =>
                    LET w == NearestHolder(last.pre, last.env, "x") IN
                    w # 0 /\ last.v = fixnum(last.pre[w].table["x"].n + 1)

\* x evaluates to 2 in the global scope, where x was defined as 1 and then
\* as (+ x 1).
C4_Witness ==
    /\ last.op = "eval" /\ last.x = symbol("x") /\ last.env = 1
    /\ last.ok /\ last.v = fixnum(2)
    /\ steps = 3

(***************************************************************************)
(* SpecCounter: the session of closure_test in one global environment,     *)
(* with forms that define and assign a global variable named counter.      *)
(***************************************************************************)
LambdaForm(params, body) == List(<<symbol("lambda"), List(params)>> \o body)

MkcounterForm ==
    DefineForm("mkcounter",
        LambdaForm(<<>>,
            <<DefineForm("counter", fixnum(0)),
              LambdaForm(<<>>,
                  <<SetForm("counter", PlusForm(symbol("counter"), fixnum(1))),
                    symbol("counter")>>)>>))

DefineCForm == DefineForm("c", List(<<symbol("mkcounter")>>))

CallCForm == List(<<symbol("c")>>)

GlobalCounterForms == {DefineForm("counter", fixnum(5)), SetForm("counter", fixnum(7))}

CounterStep(x) == steps < MaxCounterSteps /\ EvalCore(x, 1) /\ steps' = steps + 1

DefineMkcounter == CounterStep(MkcounterForm) /\ UNCHANGED ncalls

DefineC ==
    /\ CounterStep(DefineCForm)
    /\ ncalls' = IF last'.ok THEN 0 ELSE ncalls

CallC ==
    /\ CounterStep(CallCForm)
    /\ ncalls' = IF ncalls >= 0 THEN ncalls + 1 ELSE ncalls

CallMkcounter == CounterStep(List(<<symbol("mkcounter")>>)) /\ UNCHANGED ncalls

GlobalCounter(x) == CounterStep(x) /\ UNCHANGED ncalls

NextCounter ==
    \/ DefineMkcounter
    \/ DefineC
    \/ CallC
    \/ CallMkcounter
    \/ \E x \in GlobalCounterForms : GlobalCounter(x)

SpecCounter == Init /\ [][NextCounter]_vars

\* C1: with c bound by (define c (mkcounter)), the k-th evaluation of (c)
\* since then returns k, whatever was evaluated in between (calls of
\* mkcounter, definitions and assignments of a global counter).
C1_KthCallReturnsK ==
    (last.op = "eval" /\ last.x = CallCForm /\ ncalls >= 1) =>
        last.ok /\ last.v = fixnum(ncalls)

\* The third evaluation of (c) returns 3.
C1_Witness ==
    /\ last.op = "eval" /\ last.x = CallCForm /\ ncalls = 3
    /\ last.ok /\ last.v = fixnum(3)

(***************************************************************************)
(* Sessions of at most MaxFormSteps evaluations on the global scope, after *)
(* an optional (define u 5).                                               *)
(***************************************************************************)
FormStep(x) ==
    steps < MaxFormSteps /\ EvalCore(x, 1) /\ steps' = steps + 1 /\ UNCHANGED ncalls

Prelude ==
    /\ last.op = "none"
    /\ EvalCore(DefineForm("u", fixnum(5)), 1)
    /\ UNCHANGED <<steps, ncalls>>

\* The events of a trace that belong to the top-level form itself: the
\* calls of eval_internal it makes directly (eval) with their returns
\* (ret), and the scopes and writes it makes outside those calls.
RECURSIVE TopFrom(_, _)
TopFrom(tr, c) ==
    IF Len(tr) = 0 THEN <<>>
    ELSE LET ev == Head(tr) IN
         IF ev.op = "eval"
         THEN (IF c = 1 THEN <<ev>> ELSE <<>>) \o TopFrom(Tail(tr), c + 1)
         ELSE IF ev.op = "ret"
         THEN (IF c = 2 THEN <<ev>> ELSE <<>>) \o TopFrom(Tail(tr), c - 1)
         ELSE (IF c = 1 THEN <<ev>> ELSE <<>>) \o TopFrom(Tail(tr), c)

Top(trace) == TopFrom(trace, 0)

EvalEv(x, env) == [op |-> "eval", x |-> x, env |-> env]

RetEv(ok, v) == [op |-> "ret", ok |-> ok, v |-> v]

(***************************************************************************)
(* SpecClosure: applications of a lambda form to argument forms.           *)
(***************************************************************************)
ParamLists == {<<>>, <<"x">>, <<"x", "y">>, <<"x", "x">>}

ArgLists == {<<>>, <<fixnum(1)>>, <<fixnum(1), fixnum(2)>>}

\* u is bound in the global scope after Prelude only, z by the define only,
\* y when it is a parameter only.
BodyForms == {symbol("x"), symbol("y"), symbol("u"), symbol("z"),
              DefineForm("z", fixnum(7))}

Bodies == {<<>>} \cup {<<a>> : a \in BodyForms}
              \cup {<<a, b>> : a \in BodyForms, b \in BodyForms}

ShortBodies == {<<>>, <<symbol("x")>>, <<DefineForm("z", fixnum(7))>>}

\* Every body with the argument counts that match, a few bodies with those
\* that do not.
CallInputs ==
    {<<p, b, a>> \in ParamLists \X Bodies \X ArgLists :
        Len(p) = Len(a) \/ b \in ShortBodies}

CallForm(params, body, args) ==
    List(<<LambdaForm([i \in 1..Len(params) |-> symbol(params[i])], body)>> \o args)

EvalCall(params, body, args) == FormStep(CallForm(params, body, args))

NextClosure ==
    \/ Prelude
    \/ \E c \in CallInputs : EvalCall(c[1], c[2], c[3])

SpecClosure == Init /\ [][NextClosure]_vars

\* The parts of a form ((lambda params body...) args...).
IsCall(x) ==
    /\ x.k = "Cons" /\ x.car.k = "Cons" /\ x.car.car = symbol("lambda")
    /\ x.car.cdr.k = "Cons"

CallParams(x) ==
    LET l == x.car.cdr.car IN
    IF l.k = "Cons" THEN [i \in 1..Len(ListIter(l)) |-> ListIter(l)[i].s] ELSE <<>>

CallBody(x) == Tail(Tail(ListIter(x.car)))

CallArgs(x) == Tail(ListIter(x))

\* C5: a closure applied to a number of arguments other than its parameter
\* count fails with WrongNumArgs(actual, expected), makes no scope and no
\* write, evaluates nothing but the head and the arguments and leaves the
\* store as it was; with an equal count the call makes one scope, child of
\* the captured one, and binds there the i-th parameter name to the value
\* of the i-th argument, for i = 1, 2, ... in this order, before anything
\* of the body is evaluated (a name that occurs twice keeps the later
\* argument).
C5_ArityThenPositionalBinding ==
        (last.op = "eval" /\ IsCall(last.x)) =>
            LET params == CallParams(last.x)
                body == CallBody(last.x)
                args == CallArgs(last.x)
                T == Top(last.trace)
                n == Len(args)
                e == Len(last.pre) + 1
            IN /\ Len(T) >= 2 * n + 2
               /\ T[1].op = "eval" /\ T[2] = RetEv(TRUE,
                      closure(params, body, last.env))
               /\ \A i \in 1..n : T[2 * i + 1] = EvalEv(args[i], last.env)
                                   /\ T[2 * i + 2] = RetEv(TRUE, args[i])
               /\ Len(params) # n =>
                    /\ ~last.ok /\ last.v = WrongNumArgs(n, Len(params))
                    /\ Len(T) = 2 * n + 2
                    /\ \A i \in 1..Len(last.trace) :
                          last.trace[i].op \in {"eval", "ret"}
                    /\ envs = last.pre
               /\ Len(params) = n =>
                    /\ Len(T) >= 3 * n + 3
                    /\ T[2 * n + 3] = [op |-> "call", env |-> e, parent |-> last.env]
                    /\ \A i \in 1..n :
                          T[2 * n + 3 + i] = [op |-> "insert", env |-> e,
                                              name |-> params[i], value |-> args[i]]
                    /\ Len(envs) = e /\ envs[e].parent = last.env
                    /\ \A i \in 1..n :
                          (\A j \in (i + 1)..n : params[j] # params[i]) =>
                              envs[e].table[params[i]] = args[i]
                    /\ (Len(body) > 0 /\ body[1] \in {symbol("x"), symbol("y")}
                          /\ body[1].s \in {params[i] : i \in 1..n}) =>
                              T[3 * n + 5] = RetEv(TRUE, envs[e].table[body[1].s])

\* A call with two parameters of different names whose first body form
\* reads the second one.
C5_Witness ==
    /\ last.op = "eval" /\ last.ok
    /\ last.x = CallForm(<<"x", "y">>, <<symbol("y")>>, <<fixnum(1), fixnum(2)>>)
    /\ last.v = fixnum(2)

\* C6: after the parameters are bound, a closure call evaluates the forms
\* of its body in their order in the scope of the call, up to and
\* including the first one that fails; the result of the call is that of
\* the last form evaluated, and Nil when the body is empty.
C6_BodyInOrderLastValue ==
        (last.op = "eval" /\ IsCall(last.x)
           /\ Len(CallParams(last.x)) = Len(CallArgs(last.x))) =>
            LET body == CallBody(last.x)
                args == CallArgs(last.x)
                T == Top(last.trace)
                base == 3 * Len(args) + 3
                e == Len(last.pre) + 1
                m == (Len(T) - base) \div 2
            IN /\ Len(T) = base + 2 * m
               /\ m <= Len(body)
               /\ Len(body) > 0 => m >= 1
               /\ \A k \in 1..m : T[base + 2 * k - 1] = EvalEv(body[k], e)
                                   /\ T[base + 2 * k].op = "ret"
               /\ \A k \in 1..(m - 1) : T[base + 2 * k].ok
               /\ m < Len(body) => ~T[base + 2 * m].ok
               /\ m = 0 => last.ok /\ last.v = nil
               /\ m > 0 => last.ok = T[base + 2 * m].ok /\ last.v = T[base + 2 * m].v

\* A body of two forms whose second reads what the first defined.
C6_Witness ==
    /\ last.op = "eval" /\ last.ok
    /\ last.x = CallForm(<<"x">>, <<DefineForm("z", fixnum(7)), symbol("z")>>,
                          <<fixnum(1)>>)
    /\ last.v = fixnum(7)

(***************************************************************************)
(* SpecApply: generic applications, of heads that are and are not          *)
(* callable, to arguments that may fail or define a variable.              *)
(***************************************************************************)
\* u is unbound, or 5 after Prelude; (define w 1) evaluates to 1.
Heads == {symbol("+"), symbol("cons"), symbol("u"), fixnum(5),
          DefineForm("w", fixnum(1)),
          LambdaForm(<<symbol("x")>>, <<symbol("x")>>)}

\* v is unbound; y is bound by the define only.
ArgForms == {fixnum(1), symbol("v"), symbol("y"), DefineForm("y", fixnum(2))}

ArgSeqs == {<<>>} \cup {<<a>> : a \in ArgForms}
              \cup {<<a, b>> : a \in ArgForms, b \in ArgForms}

ApplyForm(head, args) == List(<<head>> \o args)

EvalApply(head, args) == FormStep(ApplyForm(head, args))

NextApply ==
    \/ Prelude
    \/ \E head \in Heads, args \in ArgSeqs : EvalApply(head, args)

SpecApply == Init /\ [][NextApply]_vars

SpecialNames == {"quote", "if", "define", "lambda", "set!"}

IsApply(x) ==
    x.k = "Cons" /\ ~(x.car.k = "Symbol" /\ x.car.s \in SpecialNames)

\* C7: a generic application evaluates its head, then its arguments from
\* left to right, all in the scope of the application, and stops at the
\* first of them that fails, whose error it returns: no later argument is
\* evaluated, so a variable a later argument would define stays as it was.
\* Only when all of them evaluated is the callable dispatched: a builtin
\* gets the argument values in order, a closure is called, and any other
\* head value gives MismatchType(value, Function).
C7_HeadThenArgsThenDispatch ==
    (last.op = "eval" /\ IsApply(last.x)) =>
        LET head == Head(ListIter(last.x))
            args == Tail(ListIter(last.x))
            na == Len(args)
            T == Top(last.trace)
            Defines(m) == \E i \in 1..m : args[i] = DefineForm("y", fixnum(2))
            YBound(es) == "y" \in DOMAIN es[1].table
        IN /\ Len(T) >= 2
           /\ T[1] = EvalEv(head, last.env) /\ T[2].op = "ret"
           /\ ~T[2].ok => Len(T) = 2 /\ ~last.ok /\ last.v = T[2].v
                             /\ envs = last.pre
           /\ T[2].ok =>
                \E m \in 0..na :
                    /\ Len(T) >= 2 * m + 2
                    /\ \A i \in 1..m : T[2 * i + 1] = EvalEv(args[i], last.env)
                                        /\ T[2 * i + 2].op = "ret"
                    /\ \A i \in 1..(m - 1) : T[2 * i + 2].ok
                    /\ \/ /\ m >= 1 /\ ~T[2 * m + 2].ok
                          /\ Len(T) = 2 * m + 2
                          /\ ~last.ok /\ last.v = T[2 * m + 2].v
                          /\ YBound(envs) <=> (YBound(last.pre) \/ Defines(m - 1))
                       \/ /\ m = na /\ (m >= 1 => T[2 * m + 2].ok)
                          /\ YBound(envs) <=> (YBound(last.pre) \/ Defines(na))
                          /\ LET f == T[2].v
                                 vals == [i \in 1..na |-> T[2 * i + 2].v]
                             IN CASE f.k = "Func" ->
                                       LET r == CallFunc(f.f, vals, <<>>) IN
                                       /\ Len(T) = 2 * na + 2
                                       /\ last.ok = r.ok /\ last.v = r.v
                                  [] f.k = "Closure" ->
                                       Len(T) > 2 * na + 2 =>
                                           T[2 * na + 3].op = "call"
                                  [] OTHER ->
                                       /\ Len(T) = 2 * na + 2
                                       /\ ~last.ok
                                       /\ last.v = MismatchType(f, "Function")

\* (5 (define y 2)): the argument is evaluated, and defines y, before the
\* head value 5 is found not to be callable.
C7_Witness ==
    /\ last.op = "eval" /\ ~last.ok
    /\ last.x = ApplyForm(fixnum(5), <<DefineForm("y", fixnum(2))>>)
    /\ last.v = MismatchType(fixnum(5), "Function")
    /\ "y" \notin DOMAIN last.pre[1].table
    /\ "y" \in DOMAIN envs[1].table

(***************************************************************************)
(* SpecShape: the forms quote, if, define and set! with operand lists of   *)
(* every length up to four, well shaped or not.                            *)
(***************************************************************************)
\* v is unbound; the define would bind y; nil is what the reader makes of
\* the name nil.
Operands == {symbol("v"), fixnum(1), DefineForm("y", fixnum(2)), nil}

OperandSeqs ==
    {<<>>} \cup {<<a>> : a \in Operands}
           \cup {<<a, b>> : a \in Operands, b \in Operands}
           \cup {<<a, b, c>> : a \in Operands, b \in Operands, c \in Operands}
           \cup {<<a, b, a, b>> : a \in Operands, b \in Operands}

ShapeNames == {"quote", "if", "define", "set!"}

SpecialForm(name, args) == List(<<symbol(name)>> \o args)

EvalSpecial(name, args) == FormStep(SpecialForm(name, args))

NextShape ==
    \/ Prelude
    \/ \E name \in ShapeNames, args \in OperandSeqs : EvalSpecial(name, args)

SpecShape == Init /\ [][NextShape]_vars

NoError == [e |-> "none"]

\* The error the shape of the operands of a special form calls for.
ShapeError(name, args) ==
    LET n == Len(args) IN
    CASE name = "quote" -> IF n # 1 THEN WrongNumArgs(n, 1) ELSE NoError
      [] name \in {"define", "set!"} ->
            IF n # 2 THEN WrongNumArgs(n, 2)
            ELSE IF args[1].k # "Symbol" THEN MismatchType(args[1], "Symbol")
            ELSE NoError
      [] name = "if" ->
            IF n < 2 THEN TooFewArguments(n, 2)
            ELSE IF n > 3 THEN TooManyArguments(n, 3)
            ELSE NoError

IsSpecial(x) == x.k = "Cons" /\ x.car.k = "Symbol" /\ x.car.s \in ShapeNames

\* C8: quote, if, define and set! with a wrong number of operands, and
\* define and set! with a first operand that is not a Symbol, return the
\* error of the shape (WrongNumArgs, TooFewArguments, TooManyArguments,
\* MismatchType(operand, Symbol)) with no operand evaluated, hence no
\* variable looked up, and with the store unchanged, whatever the operands.
C8_ShapeCheckedBeforeOperands ==
    (last.op = "eval" /\ IsSpecial(last.x)) =>
        LET name == last.x.car.s
            args == Tail(ListIter(last.x))
            err == ShapeError(name, args)
        IN err # NoError =>
              /\ ~last.ok /\ last.v = err
              /\ Len(last.trace) = 2
              /\ envs = last.pre

\* (if v) with v unbound fails with TooFewArguments(1, 2).
C8_Witness ==
    /\ last.op = "eval" /\ ~last.ok
    /\ last.x = SpecialForm("if", <<symbol("v")>>)
    /\ last.v = TooFewArguments(1, 2)
    /\ EnvFind(last.pre, last.env, "v") = 0

(***************************************************************************)
(* SpecIf: if forms with two and three operands, over tests of every kind  *)
(* of value and branches that fail or define a variable.                   *)
(***************************************************************************)
QuoteForm(e) == List(<<symbol("quote"), e>>)

\* u is unbound, or 5 after Prelude; the define evaluates to 2.
Tests == {nil, QuoteForm(nil), fixnum(0), fixnum(3), QuoteForm(symbol("a")),
          List(<<symbol("cons"), fixnum(1), fixnum(2)>>), symbol("+"),
          LambdaForm(<<>>, <<fixnum(1)>>), symbol("u"),
          DefineForm("y", fixnum(2))}

\* v is unbound.
Branches == {fixnum(1), symbol("v"), DefineForm("z", fixnum(3)),
             DefineForm("w", fixnum(4))}

IfOperands == {<<t, a>> : t \in Tests, a \in Branches}
                 \cup {<<t, a, b>> : t \in Tests, a \in Branches, b \in Branches}

EvalIf(args) == FormStep(SpecialForm("if", args))

NextIf ==
    \/ Prelude
    \/ \E args \in IfOperands : EvalIf(args)

SpecIf == Init /\ [][NextIf]_vars

\* C9: an if form with two or three operands evaluates its test once; when
\* the test fails its error is returned and no branch is evaluated; when
\* the test value is Nil the else-branch alone is evaluated and gives the
\* result, Nil when there is none; for any other test value (an Integer, 0
\* included, a Symbol, a Pair, a builtin, a closure) the then-branch alone
\* is evaluated and gives the result; a variable only the other branch
\* defines stays as it was.
C9_IfTestOnceOneBranch ==
    (last.op = "eval" /\ last.x.k = "Cons" /\ last.x.car = symbol("if")
       /\ Len(ListIter(last.x)) \in {3, 4}) =>
        LET args == Tail(ListIter(last.x))
            T == Top(last.trace)
            Bound(es, n) == n \in DOMAIN es[1].table
            Taken(b) ==
                /\ Len(T) = 4
                /\ T[3] = EvalEv(b, last.env) /\ T[4].op = "ret"
                /\ last.ok = T[4].ok /\ last.v = T[4].v
                /\ \A n \in {"z", "w"} :
                      Bound(envs, n) <=>
                          (Bound(last.pre, n)
                             \/ b \in {DefineForm(n, fixnum(3)), DefineForm(n, fixnum(4))})
        IN /\ Len(T) >= 2
           /\ T[1] = EvalEv(args[1], last.env) /\ T[2].op = "ret"
           /\ ~T[2].ok => Len(T) = 2 /\ ~last.ok /\ last.v = T[2].v
           /\ (T[2].ok /\ T[2].v = nil) =>
                IF Len(args) = 3 THEN Taken(args[3])
                ELSE /\ Len(T) = 2 /\ last.ok /\ last.v = nil
                     /\ \A n \in {"z", "w"} : Bound(envs, n) <=> Bound(last.pre, n)
           /\ (T[2].ok /\ T[2].v # nil) => Taken(args[2])

\* (if 0 (define z 3) (define w 4)): 0 is true, z is defined and w is not.
C9_Witness ==
    /\ last.op = "eval" /\ last.ok
    /\ last.x = SpecialForm("if", <<fixnum(0), DefineForm("z", fixnum(3)),
                                     DefineForm("w", fixnum(4))>>)
    /\ last.v = fixnum(3)
    /\ "z" \in DOMAIN envs[1].table
    /\ "w" \notin DOMAIN envs[1].table

(***************************************************************************)
(* SpecQuote: quote and lambda forms over operands that would fail or      *)
(* define a variable if evaluated, and calls of such lambda forms.         *)
(***************************************************************************)
Quoted == {symbol("v"), fixnum(1), nil, DefineForm("y", fixnum(2)),
           List(<<symbol("a"), symbol("b"), symbol("c")>>),
           cons(symbol("a"), symbol("b")),
           LambdaForm(<<symbol("x")>>, <<symbol("v")>>)}

\* v is unbound; u is unbound, or 5 after Prelude.
LambdaBodyForms == {symbol("v"), symbol("u"), symbol("x"), DefineForm("y", fixnum(2))}

LambdaBodies == {<<>>} \cup {<<a>> : a \in LambdaBodyForms}
                   \cup {<<a, b>> : a \in LambdaBodyForms, b \in LambdaBodyForms}

LambdaParams == {<<>>, <<"x">>, <<"x", "y">>}

EvalQuote(e) == FormStep(QuoteForm(e))

EvalLambda(params, body) ==
    FormStep(LambdaForm([i \in 1..Len(params) |-> symbol(params[i])], body))

EvalThunk(body) == FormStep(CallForm(<<>>, body, <<>>))

NextQuote ==
    \/ Prelude
    \/ \E e \in Quoted : EvalQuote(e)
    \/ \E params \in LambdaParams, body \in LambdaBodies : EvalLambda(params, body)
    \/ \E body \in LambdaBodies : EvalThunk(body)

SpecQuote == Init /\ [][NextQuote]_vars

IsLambda(x) ==
    x.k = "Cons" /\ x.car = symbol("lambda") /\ x.cdr.k = "Cons"

\* C10: (quote e) returns e itself and (lambda params body...), params a
\* list of Symbols, returns a Closure of these parameter names, the body
\* forms as written and the scope of the evaluation; both evaluate no
\* operand and leave the store unchanged, whatever e and the body hold.  A
\* call of (lambda () body...) evaluates the lambda form without error and
\* then fails with UnboundVariable when its first body form is a Symbol no
\* scope binds.
C10_QuoteAndLambdaEvaluateNothing ==
    /\ (last.op = "eval" /\ last.x.k = "Cons" /\ last.x.car = symbol("quote")
          /\ Len(ListIter(last.x)) = 2) =>
            /\ last.ok /\ last.v = last.x.cdr.car
            /\ Len(last.trace) = 2
            /\ envs = last.pre
    /\ (last.op = "eval" /\ IsLambda(last.x)) =>
            LET l == last.x.cdr.car
                params == IF l.k = "Cons"
                          THEN [i \in 1..Len(ListIter(l)) |-> ListIter(l)[i].s]
                          ELSE <<>>
            IN /\ last.ok
               /\ last.v = closure(params, Tail(Tail(ListIter(last.x))), last.env)
               /\ Len(last.trace) = 2
               /\ envs = last.pre
    /\ (last.op = "eval" /\ IsCall(last.x)) =>
            LET T == Top(last.trace)
                body == CallBody(last.x)
            IN /\ T[2] = RetEv(TRUE, closure(<<>>, body, last.env))
               /\ (Len(body) > 0 /\ body[1].k = "Symbol"
                     /\ NearestHolder(last.pre, last.env, body[1].s) = 0) =>
                      /\ ~last.ok /\ last.v = UnboundVariable(body[1].s)
                      /\ T[4] = EvalEv(body[1], Len(last.pre) + 1)

\* A lambda form whose body is an unbound symbol evaluates to a closure.
C10_Witness ==
    /\ last.op = "eval" /\ last.ok
    /\ last.x = LambdaForm(<<symbol("x")>>, <<symbol("v")>>)
    /\ last.v.k = "Closure" /\ last.v.body = <<symbol("v")>>
    /\ EnvFind(last.pre, last.env, "v") = 0

(***************************************************************************)
(* SpecLambda: lambda forms over parameter lists of every shape: proper    *)
(* lists of Symbols, lists with an element that is not a Symbol, atoms,    *)
(* dotted lists and no parameter list at all.                              *)
(***************************************************************************)
\* What may stand where a lambda form has its parameter list.
ParamShapes ==
    {nil, List(<<symbol("x")>>), List(<<symbol("x"), symbol("y")>>),
     List(<<symbol("x"), fixnum(1)>>), List(<<fixnum(1), symbol("x")>>),
     List(<<symbol("x"), List(<<symbol("y")>>)>>),
     List(<<symbol("x"), nil>>),
     fixnum(5), symbol("x"),
     cons(symbol("x"), symbol("y")), cons(symbol("x"), fixnum(5)),
     cons(symbol("x"), cons(symbol("y"), symbol("z"))),
     cons(fixnum(1), symbol("y"))}

\* v is unbound.
ShapeBodies == {<<>>, <<symbol("x")>>, <<symbol("v")>>}

\* (lambda) and (lambda . 5): no operand at all.
BareLambdas == {List(<<symbol("lambda")>>), cons(symbol("lambda"), fixnum(5))}

LambdaShapeForm(l, body) == List(<<symbol("lambda"), l>> \o body)

EvalLambdaShape(l, body) == FormStep(LambdaShapeForm(l, body))

EvalBareLambda(x) == FormStep(x)

NextLambda ==
    \/ Prelude
    \/ \E l \in ParamShapes, body \in ShapeBodies : EvalLambdaShape(l, body)
    \/ \E x \in BareLambdas : EvalBareLambda(x)

SpecLambda == Init /\ [][NextLambda]_vars

\* A proper list of Symbols: Nil, or a Pair of a Symbol and such a list.
RECURSIVE IsSymbolList(_)
IsSymbolList(l) ==
    \/ l.k = "Nil"
    \/ l.k = "Cons" /\ l.car.k = "Symbol" /\ IsSymbolList(l.cdr)

\* C11: a lambda form without a parameter list fails with
\* TooFewArguments(0, 1), and one whose parameter list is not a proper list
\* of Symbols (an element that is not a Symbol, an atom other than Nil, a
\* dotted list) fails with MismatchType and yields no Closure.
C11_BadParameterListFails ==
    (last.op = "eval" /\ last.x.k = "Cons" /\ last.x.car = symbol("lambda")) =>
        LET iter == ListIter(last.x) IN
        IF Len(iter) = 1 THEN ~last.ok /\ last.v = TooFewArguments(0, 1)
        ELSE ~IsSymbolList(iter[2]) => ~last.ok /\ last.v.e = "MismatchType"

\* The part of C11 the code satisfies, for reference of what it does with
\* the rest: the elements ListIter yields are checked, the tail is not.
C11_DottedTailDropped ==
    (last.op = "eval" /\ last.x.k = "Cons" /\ last.x.car = symbol("lambda")
       /\ Len(ListIter(last.x)) >= 2 /\ ListIter(last.x)[2].k = "Cons") =>
        LET l == ListIter(ListIter(last.x)[2]) IN
        IF \A i \in 1..Len(l) : l[i].k = "Symbol"
        THEN last.ok /\ last.v.k = "Closure" /\ Len(last.v.parameters) = Len(l)
        ELSE ~last.ok /\ last.v.e = "MismatchType" /\ last.v.type = "Symbol"

(***************************************************************************)
(* SpecPlus: applications of + to up to three arguments, Integers at and   *)
(* near the ends of the Fixnum range and values that are not Integers.     *)
(***************************************************************************)
\* Literals and quoted data: each evaluates to itself or to what it quotes.
PlusArgs == {fixnum(MaxFixnum), fixnum(MinFixnum), fixnum(1), fixnum(0 - 1),
             nil, QuoteForm(symbol("a"))}

PlusArgSeqs ==
    {<<>>} \cup {<<a>> : a \in PlusArgs}
           \cup {<<a, b>> : a \in PlusArgs, b \in PlusArgs}
           \cup {<<a, b, c>> : a \in PlusArgs, b \in PlusArgs, c \in PlusArgs}

EvalPlus(args) == FormStep(ApplyForm(symbol("+"), args))

NextPlus ==
    \/ Prelude
    \/ \E args \in PlusArgSeqs : EvalPlus(args)

SpecPlus == Init /\ [][NextPlus]_vars

\* The value of a literal or of a quoted datum.
Datum(a) == IF a.k = "Cons" THEN a.cdr.car ELSE a

RECURSIVE Sum(_)
Sum(vals) == IF Len(vals) = 0 THEN 0 ELSE Head(vals).n + Sum(Tail(vals))

\* C12: (+ a ...) of Integers is the Integer of their mathematical sum,
\* also when the sum lies outside the Fixnum range, and 0 without
\* arguments; with an argument that is not an Integer it fails with
\* MismatchType(arg, Number) for the leftmost such argument.
C12_PlusIsTheSum ==
    (last.op = "eval" /\ last.x.k = "Cons" /\ last.x.car = symbol("+")) =>
        LET args == Tail(ListIter(last.x))
            vals == [i \in 1..Len(args) |-> Datum(args[i])]
            bad == {i \in 1..Len(vals) : vals[i].k # "Fixnum"}
        IN IF bad = {} THEN last.ok /\ last.v = fixnum(Sum(vals))
           ELSE /\ ~last.ok
                /\ last.v = MismatchType(vals[CHOOSE i \in bad : \A j \in bad : i <= j],
                                         "Number")

(***************************************************************************)
(* SpecPair: ((lambda (a b) (define p (cons a b)) q) X Y), which binds the *)
(* values of X and Y, builds a Pair of them and asks q about the three.    *)
(***************************************************************************)
\* Expressions for a value of every kind: Integer, Nil, Symbol, proper and
\* dotted list, builtin, closure.
PairOperands ==
    {fixnum(1), nil, QuoteForm(symbol("s")),
     QuoteForm(cons(fixnum(1), fixnum(2))),
     QuoteForm(List(<<symbol("s"), nil>>)),
     symbol("car"), LambdaForm(<<symbol("x")>>, <<symbol("x")>>)}

CarOf(e) == List(<<symbol("car"), e>>)

CdrOf(e) == List(<<symbol("cdr"), e>>)

EqualForm(e1, e2) == List(<<symbol("equal"), e1, e2>>)

PairQueries ==
    {symbol("p"), symbol("a"), symbol("b"),
     CarOf(symbol("p")), CdrOf(symbol("p")),
     EqualForm(CarOf(symbol("p")), symbol("a")),
     EqualForm(CdrOf(symbol("p")), symbol("b"))}

PairForm(x, y, q) ==
    List(<<LambdaForm(<<symbol("a"), symbol("b")>>,
                      <<DefineForm("p", List(<<symbol("cons"), symbol("a"),
                                               symbol("b")>>)), q>>),
           x, y>>)

EvalPair(x, y, q) == FormStep(PairForm(x, y, q))

NextPair ==
    \/ Prelude
    \/ \E x \in PairOperands, y \in PairOperands, q \in PairQueries : EvalPair(x, y, q)

SpecPair == Init /\ [][NextPair]_vars

\* C13: with a and b bound to any two values vx and vy and p to
\* (cons a b), p is the Pair of vx and vy, (car p) is vx and (cdr p) is vy,
\* (equal (car p) a) and (equal (cdr p) b) are true, and a and b still
\* evaluate to vx and vy.
C13_ConsCarCdrRoundTrip ==
    (last.op = "eval" /\ IsCall(last.x)) =>
        LET T == Top(last.trace)
            vx == T[4].v
            vy == T[6].v
            q == CallBody(last.x)[2]
        IN /\ last.ok
           /\ T[4].ok /\ T[6].ok
           /\ CASE q = symbol("p") ->
                     last.v = [k |-> "Cons", car |-> vx, cdr |-> vy]
                [] q = symbol("a") -> last.v = vx
                [] q = symbol("b") -> last.v = vy
                [] q = CarOf(symbol("p")) -> last.v = vx
                [] q = CdrOf(symbol("p")) -> last.v = vy
                [] OTHER -> last.v = symbol("t")

\* The cdr of a Pair of a Symbol and a closure is equal to the closure.
C13_Witness ==
    /\ last.op = "eval" /\ last.ok /\ last.v = symbol("t")
    /\ last.x = PairForm(QuoteForm(symbol("s")),
                         LambdaForm(<<symbol("x")>>, <<symbol("x")>>),
                         EqualForm(CdrOf(symbol("p")), symbol("b")))
    /\ Top(last.trace)[6].v.k = "Closure"

(***************************************************************************)
(* SpecBuiltin: the builtins atom?, car, cdr, cons and equal applied to    *)
(* none to three arguments of every kind of value.                         *)
(***************************************************************************)
BuiltinOperands ==
    {fixnum(1), nil, QuoteForm(symbol("s")), QuoteForm(cons(fixnum(1), fixnum(2))),
     symbol("car"), LambdaForm(<<symbol("x")>>, <<symbol("x")>>)}

BuiltinArgSeqs ==
    {<<>>} \cup {<<a>> : a \in BuiltinOperands}
           \cup {<<a, b>> : a \in BuiltinOperands, b \in BuiltinOperands}
           \cup {<<a, b, a>> : a \in BuiltinOperands, b \in BuiltinOperands}

ExactArity == [f \in {"atom?", "car", "cdr"} |-> 1] @@ [f \in {"cons", "equal"} |-> 2]

\* equal is not asked to compare two closures.
BuiltinInputs ==
    {<<f, args>> \in (DOMAIN ExactArity) \X BuiltinArgSeqs :
        ~(f = "equal" /\ Len(args) = 2 /\ args[1] = args[2]
            /\ args[1] = LambdaForm(<<symbol("x")>>, <<symbol("x")>>))}

EvalBuiltin(f, args) == FormStep(ApplyForm(symbol(f), args))

NextBuiltin ==
    \/ Prelude
    \/ \E c \in BuiltinInputs : EvalBuiltin(c[1], c[2])

SpecBuiltin == Init /\ [][NextBuiltin]_vars

\* C14: atom?, car and cdr applied to a number of arguments other than 1,
\* and cons and equal to a number other than 2, fail with
\* WrongNumArgs(actual, expected) whatever the argument values are; car and
\* cdr of one value that is not a Pair fail with MismatchType(value, Cons)
\* and of a Pair return its field; atom? of one value returns Nil when it
\* is a Pair and the Symbol t otherwise.
C14_CountCheckedBeforeKinds ==
    (last.op = "eval" /\ last.x.k = "Cons" /\ last.x.car.k = "Symbol"
       /\ last.x.car.s \in DOMAIN ExactArity) =>
        LET f == last.x.car.s
            n == Len(ListIter(last.x)) - 1
            T == Top(last.trace)
            vals == [i \in 1..n |-> T[2 * i + 2].v]
        IN /\ Len(T) = 2 * n + 2
           /\ \A i \in 1..n : T[2 * i + 2].ok
           /\ n # ExactArity[f] =>
                ~last.ok /\ last.v = WrongNumArgs(n, ExactArity[f])
           /\ (n = 1 /\ f \in {"car", "cdr"}) =>
                IF vals[1].k = "Cons"
                THEN last.ok /\ last.v = (IF f = "car" THEN vals[1].car ELSE vals[1].cdr)
                ELSE ~last.ok /\ last.v = MismatchType(vals[1], "Cons")
           /\ (n = 1 /\ f = "atom?") =>
                /\ last.ok
                /\ last.v = (IF vals[1].k = "Cons" THEN nil ELSE symbol("t"))
           /\ (n = 2 /\ f = "cons") => last.ok

\* (car 1 nil): two arguments, neither a Pair, give WrongNumArgs(2, 1).
C14_Witness ==
    /\ last.op = "eval" /\ ~last.ok
    /\ last.x = ApplyForm(symbol("car"), <<fixnum(1), nil>>)
    /\ last.v = WrongNumArgs(2, 1)

(***************************************************************************)
(* SpecNil: the name nil, read as object::symbol("nil"), evaluated and     *)
(* used where a variable name is expected, on chains of scopes the host    *)
(* builds.                                                                 *)
(***************************************************************************)
\* Forms with nil where define, set! and lambda expect a name.
NilNameForms ==
    {DefineForm("nil", fixnum(1)), SetForm("nil", fixnum(1)),
     LambdaForm(<<symbol("nil")>>, <<fixnum(1)>>),
     LambdaForm(<<symbol("x"), symbol("nil")>>, <<symbol("x")>>),
     List(<<LambdaForm(<<symbol("nil")>>, <<symbol("nil")>>), fixnum(1)>>)}

\* Forms that bind and assign a variable x.
NilOtherForms ==
    {DefineForm("x", fixnum(1)), DefineForm("x", symbol("nil")),
     SetForm("x", symbol("nil")), symbol("x")}

EvalNil(h) == Eval(symbol("nil"), h)

EvalNilName(x, h) == Eval(x, h)

EvalNilOther(x, h) == Eval(x, h)

NextNil ==
    \/ \E p \in handles : NewScope(p)
    \/ \E h \in handles : EvalNil(h)
    \/ \E x \in NilNameForms, h \in handles : EvalNilName(x, h)
    \/ \E x \in NilOtherForms, h \in handles : EvalNilOther(x, h)

SpecNil == Init /\ [][NextNil]_vars

\* C15: symbol("nil") is Nil; nil evaluates to Nil in every scope, whatever
\* was evaluated before; no scope ever binds the name nil; define and set!
\* with nil as the name, and lambda with nil among the parameters, fail
\* with MismatchType(Nil, Symbol) and change nothing.
C15_NilAlwaysDenotesNil ==
    /\ symbol("nil") = [k |-> "Nil"]
    /\ \A s \in 1..Len(envs) : "nil" \notin DOMAIN envs[s].table
    /\ (last.op = "eval" /\ last.x = symbol("nil")) =>
          last.ok /\ last.v = [k |-> "Nil"] /\ envs = last.pre
    /\ (last.op = "eval" /\ last.x \in NilNameForms) =>
          /\ ~last.ok
          /\ last.v = MismatchType([k |-> "Nil"], "Symbol")
          /\ envs = last.pre

\* nil evaluates to Nil in a scope the host made, as the third evaluation.
C15_Witness ==
    /\ last.op = "eval" /\ last.x = symbol("nil") /\ last.ok /\ last.v = nil
    /\ last.env # 1 /\ steps = 3
    /\ "x" \in DOMAIN envs[1].table

(***************************************************************************)
(* SpecTotal: forms that put the evaluator at its limits: sums at the ends *)
(* of the Fixnum range, forms with a dotted tail, a closure that calls     *)
(* itself without end, and forms that fail in the ordinary ways.           *)
(***************************************************************************)
EdgeSums ==
    {ApplyForm(symbol("+"), <<fixnum(a), fixnum(b)>>) :
        a \in {MaxFixnum, MinFixnum, 1, 0 - 1}, b \in {MaxFixnum, MinFixnum, 1, 0 - 1}}

\* (+ 1 . 2), (car . 5), (quote . a), (if 1 . 2), (1 . 2), (lambda . x),
\* (define x . 1), (set! . 1), ((lambda (x) x) 1 . 2).
DottedForms ==
    {cons(symbol("+"), cons(fixnum(1), fixnum(2))),
     cons(symbol("car"), fixnum(5)),
     cons(symbol("quote"), symbol("a")),
     cons(symbol("if"), cons(fixnum(1), fixnum(2))),
     cons(fixnum(1), fixnum(2)),
     cons(symbol("lambda"), symbol("x")),
     cons(symbol("define"), cons(symbol("x"), fixnum(1))),
     cons(symbol("set!"), fixnum(1)),
     cons(LambdaForm(<<symbol("x")>>, <<symbol("x")>>), cons(fixnum(1), fixnum(2)))}

\* ((lambda (f) (f f)) (lambda (f) (f f))): every call calls again.
SelfCall == LambdaForm(<<symbol("f")>>, <<List(<<symbol("f"), symbol("f")>>)>>)

EndlessForm == List(<<SelfCall, SelfCall>>)

FailingForms ==
    {symbol("v"), List(<<symbol("car"), fixnum(1)>>), List(<<symbol("car")>>),
     List(<<fixnum(1)>>), List(<<symbol("if")>>),
     List(<<symbol("if"), fixnum(1), fixnum(2), fixnum(3), fixnum(4)>>),
     List(<<symbol("+"), nil>>), SetForm("v", fixnum(1))}

EvalEdgeSum(x) == FormStep(x)

EvalDotted(x) == FormStep(x)

EvalEndless == FormStep(EndlessForm)

EvalFailing(x) == FormStep(x)

NextTotal ==
    \/ Prelude
    \/ \E x \in EdgeSums : EvalEdgeSum(x)
    \/ \E x \in DottedForms : EvalDotted(x)
    \/ EvalEndless
    \/ \E x \in FailingForms : EvalFailing(x)

SpecTotal == Init /\ [][NextTotal]_vars

RuntimeErrors ==
    {"UnboundVariable", "MismatchType", "WrongNumArgs", "TooFewArguments",
     "TooManyArguments"}

\* C16: every evaluation returns a value or one of the RuntimeError cases;
\* none aborts the process.
C16_ErrorsAreValues ==
    last.op = "eval" => (last.ok \/ last.v.e \in RuntimeErrors)

\* What the forms of SpecTotal come to, case by case: a form with a dotted
\* tail is evaluated as the list of its cars and an ordinary failure is a
\* RuntimeError; a sum outside the Fixnum range aborts the debug build; the
\* endless call aborts every build.
C16_WhereItAborts ==
    last.op = "eval" =>
        /\ last.x \in DottedForms \cup FailingForms =>
              (last.ok \/ last.v.e \in RuntimeErrors)
        /\ last.x = EndlessForm => ~last.ok /\ last.v = Abort("stack")
        /\ last.x \in EdgeSums =>
              LET sum == last.x.cdr.car.n + last.x.cdr.cdr.car.n IN
              IF sum > MaxFixnum \/ sum < MinFixnum
              THEN IF build = "debug" THEN ~last.ok /\ last.v = Abort("overflow")
                   ELSE last.ok /\ last.v.n # sum
              ELSE last.ok /\ last.v = fixnum(sum)

(***************************************************************************)
(* SpecCycle: closures, and Pairs that hold closures, returned, passed as  *)
(* arguments, defined and assigned, in the global scope and in the scopes  *)
(* of calls.                                                               *)
(***************************************************************************)
\* Expressions for a closure, a Pair that holds one, and an Integer.
CycleValues ==
    {LambdaForm(<<>>, <<fixnum(1)>>), LambdaForm(<<symbol("x")>>, <<symbol("x")>>),
     List(<<symbol("cons"), fixnum(1), LambdaForm(<<>>, <<fixnum(2)>>)>>),
     fixnum(7)}

\* u is bound after Prelude only.
CycleForms ==
    UNION {{e,
            DefineForm("f", e),
            SetForm("u", e),
            List(<<LambdaForm(<<symbol("g")>>, <<symbol("g")>>), e>>),
            List(<<LambdaForm(<<symbol("g")>>,
                              <<List(<<LambdaForm(<<symbol("k")>>, <<symbol("k")>>),
                                       symbol("g")>>)>>), e>>),
            List(<<LambdaForm(<<symbol("g")>>, <<DefineForm("h", symbol("g"))>>), e>>),
            List(<<LambdaForm(<<symbol("g")>>, <<SetForm("g", e)>>), fixnum(1)>>),
            List(<<LambdaForm(<<>>, <<DefineForm("h", e), symbol("h")>>)>>)}
           : e \in CycleValues}

EvalCycle(x) == FormStep(x)

NextCycle ==
    \/ Prelude
    \/ \E x \in CycleForms : EvalCycle(x)

SpecCycle == Init /\ [][NextCycle]_vars

\* The closures a value holds: itself, or those of the fields of a Pair.
RECURSIVE ClosuresIn(_)
ClosuresIn(v) ==
    CASE v.k = "Closure" -> {v}
      [] v.k = "Cons" -> ClosuresIn(v.car) \cup ClosuresIn(v.cdr)
      [] OTHER -> {}

ChainSet(es, h) == {Chain(es, h)[i] : i \in 1..Len(Chain(es, h))}

\* Writing v into scope s makes s reachable from itself: v holds a closure
\* whose captured scope is s or a descendant of s.
ClosesCycle(es, s, v) == \E c \in ClosuresIn(v) : s \in ChainSet(es, c.env)

\* An insert event that binds a parameter: those follow the call event of
\* their scope, one after the other; the insert of a define follows a ret.
RECURSIVE IsParamInsert(_, _)
IsParamInsert(tr, i) ==
    /\ i >= 2 /\ tr[i].op = "insert"
    /\ \/ tr[i - 1].op = "call" /\ tr[i - 1].env = tr[i].env
       \/ IsParamInsert(tr, i - 1)

\* C17 as claimed: no scope binds a Closure, or a Pair holding one, whose
\* captured scope is that scope or one of its descendants.
C17_ReferenceGraphAcyclic ==
    \A s \in 1..Len(envs) : \A n \in DOMAIN envs[s].table :
        ~ClosesCycle(envs, s, envs[s].table[n])

\* C17 as amended: the parent link of every scope points to a scope made
\* before it, every closure in a table captured a scope of the store, and
\* the parameter bindings of a call never make a scope reachable from
\* itself; only a define or a set! does.
C17_OnlyDefineOrSetClosesACycle ==
    /\ \A s \in 1..Len(envs) : envs[s].parent < s
    /\ \A s \in 1..Len(envs) : \A n \in DOMAIN envs[s].table :
          \A c \in ClosuresIn(envs[s].table[n]) : c.env \in 1..Len(envs)
    /\ last.op = "eval" =>
          \A i \in 1..Len(last.trace) :
              IsParamInsert(last.trace, i) =>
                  ~ClosesCycle(envs, last.trace[i].env, last.trace[i].value)

\* A call bound its parameter to a closure, and no scope is reachable from
\* itself.
C17_Witness ==
    /\ last.op = "eval" /\ last.ok
    /\ last.x = List(<<LambdaForm(<<symbol("g")>>, <<symbol("g")>>),
                       LambdaForm(<<>>, <<fixnum(1)>>)>>)
    /\ envs[Len(envs)].table["g"].k = "Closure"
    /\ C17_ReferenceGraphAcyclic

(***************************************************************************)
(* SpecLexical: a closure f whose body reads x, made in the global scope   *)
(* or in the scope of a call that binds x, and called from inside another  *)
(* closure whose parameter is named x.                                     *)
(***************************************************************************)
LexValues == {1, 2}

\* (define f (lambda () x)): x is free in f and resolved from the global scope.
DefineFGlobalForm == DefineForm("f", LambdaForm(<<>>, <<symbol("x")>>))

\* (define f ((lambda (x) (lambda () x)) a)): f captures a scope where x is a.
DefineFInnerForm(a) ==
    DefineForm("f", List(<<LambdaForm(<<symbol("x")>>,
                                      <<LambdaForm(<<>>, <<symbol("x")>>)>>),
                           fixnum(a)>>))

\* ((lambda (x) (f)) b): f is called where x is b.
CallerForm(b) ==
    List(<<LambdaForm(<<symbol("x")>>, <<List(<<symbol("f")>>)>>), fixnum(b)>>)

\* The forms of a session, as the reader hands them to eval.
DefineXForms == {DefineForm("x", fixnum(a)) : a \in LexValues}

DefineFInnerForms == {DefineFInnerForm(a) : a \in LexValues}

CallerForms == {CallerForm(b) : b \in LexValues}

DefineX(x) == Eval(x, 1)

DefineFGlobal == Eval(DefineFGlobalForm, 1)

DefineFInner(x) == Eval(x, 1)

CallFromCaller(x) == Eval(x, 1)

NextLexical ==
    \/ \E x \in DefineXForms : DefineX(x)
    \/ DefineFGlobal
    \/ \E x \in DefineFInnerForms : DefineFInner(x)
    \/ \E x \in CallerForms : CallFromCaller(x)

SpecLexical == Init /\ [][NextLexical]_vars

\* C18: f, a closure whose body is the free variable x, called from inside
\* a closure whose parameter x is b, returns the x of the nearest scope
\* that binds it on the chain of the scope f captured (whatever b is), and
\* fails with UnboundVariable(x) when no scope of that chain binds x, though
\* the caller's scope does.
C18_FreeVariablesAreLexical ==
    (last.op = "eval" /\ last.x \in CallerForms
       /\ "f" \in DOMAIN last.pre[1].table) =>
        LET c == last.pre[1].table["f"]
            w == NearestHolder(last.pre, c.env, "x")
        IN IF w # 0 THEN last.ok /\ last.v = last.pre[w].table["x"]
           ELSE ~last.ok /\ last.v = UnboundVariable("x")

\* f, made in the global scope where x is 1, returns 1 when called from a
\* closure whose x is 2.
C18_Witness ==
    /\ last.op = "eval" /\ last.x = CallerForm(2)
    /\ last.ok /\ last.v = fixnum(1)
    /\ last.pre[1].table["f"].env = 1

(***************************************************************************)
(* SpecFresh: the session of closure_test with a parameter and two         *)
(* counters: mkfrom binds its parameter n and defines counter, c1 and c2   *)
(* are made by two calls of mkfrom and called in any order.                *)
(***************************************************************************)
\* (define mkfrom (lambda (n) (define counter n)
\*                   (lambda () (set! counter (+ counter 1)) counter)))
DefineMkfromForm ==
    DefineForm("mkfrom",
        LambdaForm(<<symbol("n")>>,
            <<DefineForm("counter", symbol("n")),
              LambdaForm(<<>>,
                  <<SetForm("counter", PlusForm(symbol("counter"), fixnum(1))),
                    symbol("counter")>>)>>))

DefineC1Form == DefineForm("c1", List(<<symbol("mkfrom"), fixnum(0)>>))

DefineC2Form == DefineForm("c2", List(<<symbol("mkfrom"), fixnum(10)>>))

CallC1Form == List(<<symbol("c1")>>)

CallC2Form == List(<<symbol("c2")>>)

FreshStep(x) == CounterStep(x) /\ UNCHANGED ncalls

DefineMkfrom == FreshStep(DefineMkfromForm)

DefineC1 == FreshStep(DefineC1Form)

DefineC2 == FreshStep(DefineC2Form)

CallC1 == FreshStep(CallC1Form)

CallC2 == FreshStep(CallC2Form)

NextFresh ==
    \/ DefineMkfrom
    \/ DefineC1
    \/ DefineC2
    \/ CallC1
    \/ CallC2

SpecFresh == Init /\ [][NextFresh]_vars

\* C19: every closure call makes one scope that did not exist before, a
\* child of the captured one, and no two calls share one.  A call of mkfrom
\* leaves its parameter n and its variable counter in the scope of that
\* call alone: the global scope (captured by mkfrom, and the caller's)
\* never binds them and every older scope stays as it was.  A call of a
\* counter adds 1 to the counter of the scope that counter captured and
\* changes no other scope, the other counter's included, so c1 and c2,
\* which captured different scopes, count independently.
C19_EachInvocationHasItsOwnScope ==
    last.op = "eval" =>
        LET tr == last.trace
            pre == last.pre
            calls == {i \in 1..Len(tr) : tr[i].op = "call"}
            g == envs[1].table
        IN /\ \A i \in calls :
                 /\ tr[i].env > Len(pre) /\ tr[i].env <= Len(envs)
                 /\ envs[tr[i].env].parent = tr[i].parent
           /\ \A i \in calls : \A j \in calls : i # j => tr[i].env # tr[j].env
           /\ Len(envs) = Len(pre) + Cardinality(calls)
           /\ "n" \notin DOMAIN g /\ "counter" \notin DOMAIN g
           /\ ("c1" \in DOMAIN g /\ "c2" \in DOMAIN g) => g["c1"].env # g["c2"].env
           /\ \A name \in {"c1", "c2"} :
                 (last.x = (IF name = "c1" THEN DefineC1Form ELSE DefineC2Form)
                    /\ "mkfrom" \in DOMAIN pre[1].table) =>
                     LET e == Len(pre) + 1 IN
                     /\ last.ok /\ last.v.k = "Closure" /\ last.v.env = e
                     /\ Len(envs) = e
                     /\ DOMAIN envs[e].table = {"n", "counter"}
                     /\ envs[e].table["n"] = fixnum(IF name = "c1" THEN 0 ELSE 10)
                     /\ envs[e].table["counter"] = envs[e].table["n"]
                     /\ \A s \in 2..Len(pre) : envs[s] = pre[s]
                     /\ DOMAIN g = DOMAIN pre[1].table \cup {name}
                     /\ \A m \in DOMAIN pre[1].table : m # name => g[m] = pre[1].table[m]
           /\ \A name \in {"c1", "c2"} :
                 (last.x = (IF name = "c1" THEN CallC1Form ELSE CallC2Form)
                    /\ name \in DOMAIN pre[1].table) =>
                     LET e == pre[1].table[name].env IN
                     /\ last.ok
                     /\ last.v = fixnum(pre[e].table["counter"].n + 1)
                     /\ envs[e].table = [pre[e].table EXCEPT !["counter"] = last.v]
                     /\ \A s \in 1..Len(pre) : s # e => envs[s] = pre[s]
                     /\ Len(envs) = Len(pre) + 1
                     /\ envs[Len(envs)].table = EmptyTable

\* c2 returns 11 on its first call, after c1 was called once.
C19_Witness ==
    /\ last.op = "eval" /\ last.x = CallC2Form /\ last.ok /\ last.v = fixnum(11)
    /\ "c1" \in DOMAIN envs[1].table
    /\ envs[envs[1].table["c1"].env].table["counter"] = fixnum(1)

(***************************************************************************)
(* The printer (Display, object.rs) and the reader (reader.rs).  A text is *)
(* the sequence of its characters; a stream is a buffer and the number of  *)
(* characters read from it.                                                *)
(***************************************************************************)
\* Length of the longest name of a Symbol that is printed.
MaxNameLen == 3

RECURSIVE Concat(_)
Concat(cs) == IF Len(cs) = 0 THEN "" ELSE Head(cs) \o Concat(Tail(cs))

\* The characters of a name of at most MaxNameLen characters.
Chars(s) ==
    CHOOSE cs \in UNION {[1..n -> {"a", "b", "c", "f", "o", "+"}] :
                             n \in 0..MaxNameLen} :
        Concat(cs) = s

DigitChars == <<"0", "1", "2", "3", "4", "5", "6", "7", "8", "9">>

RECURSIVE fmt_usize(_)
fmt_usize(n) ==
    IF n < 10 THEN <<DigitChars[n + 1]>>
    ELSE fmt_usize(n \div 10) \o <<DigitChars[(n % 10) + 1]>>

\* Display of isize: decimal, with a minus sign below zero.
fmt_isize(n) == IF n < 0 THEN <<"-">> \o fmt_usize(0 - n) ELSE fmt_usize(n)

RECURSIVE fmt_ObjectKind(_)
RECURSIVE fmt_Cons(_)
fmt_ObjectKind(x) ==
    CASE x.k = "Nil" -> <<"n", "i", "l">>
      [] x.k = "Fixnum" -> fmt_isize(x.n)
      [] x.k = "Symbol" -> Chars(x.s)
      [] x.k = "Cons" -> <<"(">> \o fmt_Cons(x)
      [] OTHER -> <<"<", "F", "n", ">">>

\* The loop of Display for Cons, from the element cur is at.
fmt_Cons(cur) ==
    fmt_ObjectKind(cur.car) \o
        (IF cur.cdr.k = "Cons" THEN <<" ">> \o fmt_Cons(cur.cdr)
         ELSE IF cur.cdr.k = "Nil" THEN <<")">>
         ELSE <<" ", ".", " ">> \o fmt_ObjectKind(cur.cdr) \o <<")">>)

EndOfFile == [e |-> "EndOfFile"]

UnmatchedClosedParen == [e |-> "UnmatchedClosedParen"]

UnexpectedChar(actual, expected) ==
    [e |-> "UnexpectedChar", actual |-> actual, expected |-> expected]

is_ascii_whitespace(b) == b \in {" ", "\t", "\n", "\f", "\r"}

is_delimiter(b) == b \in {"(", ")", "'"} \/ is_ascii_whitespace(b)

StringStream(str) == [buffer |-> str, pos |-> 0]

peek_char(r) ==
    IF r.pos < Len(r.buffer) THEN Ok(r.buffer[r.pos + 1], r) ELSE Err(EndOfFile, r)

next_char(r) == IF r.pos < Len(r.buffer) THEN [r EXCEPT !.pos = r.pos + 1] ELSE r

clear(r) == [buffer |-> <<>>, pos |-> 0]

RECURSIVE skip_spaces(_)
skip_spaces(r) ==
    LET c == peek_char(r) IN
    IF c.ok /\ is_ascii_whitespace(c.v) THEN skip_spaces(next_char(r)) ELSE r

\* str::parse::<isize>: an optional sign and at least one digit, within the
\* range of a Fixnum.
RECURSIVE parse_digits(_, _)
parse_digits(v, acc) ==
    IF Len(v) = 0 THEN acc
    ELSE parse_digits(Tail(v),
                      10 * acc + (CHOOSE i \in 0..9 : DigitChars[i + 1] = Head(v)))

parse(v) ==
    LET signed == Len(v) > 0 /\ Head(v) \in {"+", "-"}
        digits == IF signed THEN Tail(v) ELSE v
        isnum == Len(digits) > 0
                    /\ \A i \in 1..Len(digits) :
                           \E j \in 1..10 : DigitChars[j] = digits[i]
        m == parse_digits(digits, 0)
        n == IF signed /\ Head(v) = "-" THEN 0 - m ELSE m
    IN IF isnum /\ MinFixnum <= n /\ n <= MaxFixnum
       THEN [ok |-> TRUE, n |-> n] ELSE [ok |-> FALSE, n |-> 0]

\* The loop of read_atom: the characters up to a delimiter or the end.
RECURSIVE read_atom_loop(_, _)
read_atom_loop(r, v) ==
    LET c == peek_char(r) IN
    IF c.ok /\ ~is_delimiter(c.v) THEN read_atom_loop(next_char(r), Append(v, c.v))
    ELSE [v |-> v, r |-> r]

read_atom(r) ==
    LET a == read_atom_loop(r, <<>>)
        n == parse(a.v)
    IN Ok(IF n.ok THEN fixnum(n.n) ELSE symbol(Concat(a.v)), a.r)

RECURSIVE read_ahead(_)
RECURSIVE read_list(_)
RECURSIVE read_list_loop(_, _)
RECURSIVE read_quote(_)
\* The loop of read_list, with the elements read so far.
read_list_loop(r, list) ==
    LET obj == read_ahead(r) IN
    IF ~obj.ok THEN obj
    ELSE LET r2 == skip_spaces(obj.st)
             list2 == Append(list, obj.v)
             c == peek_char(r2)
         IN IF ~c.ok THEN c
            ELSE IF c.v = "."
            THEN LET lst == read_ahead(next_char(r2)) IN
                 IF ~lst.ok THEN lst
                 ELSE LET r3 == skip_spaces(lst.st)
                          c3 == peek_char(r3)
                      IN IF ~c3.ok THEN c3
                         ELSE IF c3.v = ")" THEN Ok(vec_to_cons(list2, lst.v), r3)
                         ELSE Err(UnexpectedChar(c3.v, ")"), r3)
            ELSE IF c.v = ")" THEN Ok(vec_to_cons(list2, nil), next_char(r2))
            ELSE read_list_loop(r2, list2)

read_list(r) ==
    LET r1 == skip_spaces(r)
        c == peek_char(r1)
    IN IF ~c.ok THEN c
       ELSE IF c.v = ")" THEN Ok(nil, next_char(r1))
       ELSE read_list_loop(r1, <<>>)

read_quote(r) ==
    LET obj == read_ahead(r) IN
    IF ~obj.ok THEN obj
    ELSE Ok(cons(symbol("quote"), cons(obj.v, nil)), obj.st)

read_ahead(r) ==
    LET r1 == skip_spaces(r)
        c == peek_char(r1)
    IN IF ~c.ok THEN c
       ELSE IF c.v = ")" THEN Err(UnmatchedClosedParen, clear(r1))
       ELSE IF c.v = "(" THEN read_list(next_char(r1))
       ELSE IF c.v = "'" THEN read_quote(next_char(r1))
       ELSE read_atom(r1)

\* The value and the position the stream is left at, or the error.
read_from_string(input) ==
    LET x == read_ahead(StringStream(input)) IN
    [ok |-> x.ok, v |-> x.v, pos |-> x.st.pos]

(***************************************************************************)
(* SpecRead: one value is printed and the text is read back, or one text   *)
(* of the reader's tests is read.                                          *)
(***************************************************************************)
\* ((1 . 2) 3 . 4), of display_cons_test.
DottedInDotted == cons(cons(fixnum(1), fixnum(2)), cons(fixnum(3), fixnum(4)))

\* ((a . b) c)
DottedInList == cons(cons(symbol("a"), symbol("b")), cons(symbol("c"), nil))

\* Integers, Nil, Symbols and Pairs of them, proper and dotted, nested.
ReadData ==
    LET atoms == {nil, fixnum(1), fixnum(2), fixnum(0 - 12), fixnum(MaxFixnum),
                  fixnum(MinFixnum), symbol("a"), symbol("b"), symbol("+"),
                  symbol("foo")}
        pairs == {cons(x, y) : x \in atoms, y \in atoms}
    IN atoms \cup pairs
        \cup {cons(x, y) : x \in pairs, y \in {nil, fixnum(1), symbol("a")}}
        \cup {cons(x, y) : x \in {nil, fixnum(1), symbol("a")}, y \in pairs}
        \cup {DottedInDotted, DottedInList,
              cons(DottedInList, cons(DottedInDotted, nil)),
              List(<<symbol("+"), fixnum(12), List(<<symbol("a"), nil>>)>>)}

\* The inputs of tests::test with the values it expects.
ReaderTests ==
    {[text |-> <<"a">>, expected |-> symbol("a")],
     [text |-> <<" ", " ", "a">>, expected |-> symbol("a")],
     [text |-> <<"1", "2">>, expected |-> fixnum(12)],
     [text |-> <<"-", "1", "2">>, expected |-> fixnum(0 - 12)],
     [text |-> <<"+", "1", "2">>, expected |-> fixnum(12)],
     [text |-> <<"(", ")">>, expected |-> nil],
     [text |-> <<"n", "i", "l">>, expected |-> nil],
     [text |-> <<"(", "+", ")">>, expected |-> cons(symbol("+"), nil)],
     [text |-> <<"(", "a", " ", "b", " ", "c", ")">>,
      expected |-> List(<<symbol("a"), symbol("b"), symbol("c")>>)],
     [text |-> <<"(", "a", " ", ".", " ", "b", ")">>,
      expected |-> cons(symbol("a"), symbol("b"))],
     [text |-> <<"'", "f", "o", "o">>, expected |-> QuoteForm(symbol("foo"))],
     [text |-> <<"'", "(", "a", " ", "b", ")">>,
      expected |-> QuoteForm(List(<<symbol("a"), symbol("b")>>))],
     [text |-> <<"(", "(", ")", " ", "1", ")">>,
      expected |-> List(<<nil, fixnum(1)>>)]}

ReadStep(op, x, text) ==
    /\ steps < MaxFormSteps
    /\ LET r == read_from_string(text) IN
        last' = [op |-> op, x |-> x, env |-> 0, ok |-> r.ok, v |-> r.v,
                 trace |-> <<>>, pre |-> <<>>, text |-> text, pos |-> r.pos]
    /\ steps' = steps + 1
    /\ UNCHANGED <<envs, handles, build, written, ncalls>>

\* format!("{}", x), then read_from_string of the text.
PrintRead(x) == ReadStep("read", x, fmt_ObjectKind(x))

\* verify(input, expected) of the reader's tests.
Verify(t) == ReadStep("verify", t.expected, t.text)

NextRead ==
    \/ \E x \in ReadData : PrintRead(x)
    \/ \E t \in ReaderTests : Verify(t)

SpecRead == Init /\ [][NextRead]_vars

\* C20: read_from_string of the printed text of a value built from
\* Integers, Nil, Symbols and Pairs, proper or dotted and nested, returns a
\* structurally equal value and stops right after the text of that value.
C20_PrintThenReadIsIdentity ==
    last.op = "read" =>
        /\ last.ok
        /\ equal(last.v, last.x)
        /\ last.pos = Len(last.text)

\* A Pair whose chain of rests ends in a value that is not Nil, at any depth.
RECURSIVE HasDotted(_)
HasDotted(x) ==
    x.k = "Cons" /\ (\/ HasDotted(x.car)
                     \/ (x.cdr.k # "Cons" /\ x.cdr.k # "Nil")
                     \/ HasDotted(x.cdr))

\* Where the round trip holds and where it does not: it holds for every
\* value without a dotted Pair; a dotted Pair of two atoms comes back equal
\* with its closing parenthesis unread; the two nested examples come back
\* cut after the inner dotted Pair.
C20_WhereItDiffers ==
    /\ (last.op = "read" /\ ~HasDotted(last.x)) =>
           last.ok /\ equal(last.v, last.x) /\ last.pos = Len(last.text)
    /\ (last.op = "read" /\ last.x.k = "Cons" /\ last.x.car.k # "Cons"
            /\ last.x.cdr.k \notin {"Cons", "Nil"}) =>
           last.ok /\ equal(last.v, last.x) /\ last.pos = Len(last.text) - 1
    /\ (last.op = "read" /\ last.x = DottedInDotted) =>
           last.ok /\ last.v = cons(cons(fixnum(1), fixnum(2)), nil)
    /\ (last.op = "read" /\ last.x = DottedInList) =>
           last.ok /\ last.v = cons(cons(symbol("a"), symbol("b")), nil)

\* The reader's own tests pass.
C20_ReaderTestsPass ==
    last.op = "verify" => last.ok /\ equal(last.v, last.x)

====
